---- MODULE Spec2Model ----
(***************************************************************************)
(* Tickertape screener: the scorecard normalizer (tickertape_api.py), the  *)
(* concurrent scorecard fetch, the row builder, the top-20 ranker and main *)
(* (Screener.py).                                                          *)
(*                                                                         *)
(* Python values are modelled by strings and records so that TLC can       *)
(* compare them: a numeric score value is modelled by its decimal string,  *)
(* a dict by a function from its keys, None by a marker.                   *)
(***************************************************************************)
EXTENDS Integers, Sequences, FiniteSets, TLC

\* Bounds of the model.
MaxItems == 2      \* longest 'data' list of a scorecard document
MaxStocks == 3     \* most results of the screener query
MaxRows == 3       \* longest list of flat rows given to the ranker alone

VARIABLES
    scorecard_data,   \* the argument of extract_scorecard_summary_csv
    nz_pc,            \* normalizer position: "idle", "call", "loop", "returned", "raised"
    nz_i,             \* index of the next item of scorecard_data['data']
    summary,          \* the normalizer's local summary dict
    api,              \* what the screener endpoint answers to the bulk query
    net,              \* what the scorecard endpoint answers for each result
    pc,               \* position of main
    data,             \* main: the results fetch_screener_data returned
    task,             \* state of each fetch_scorecard_async task
    scorecard_results,\* what each task returned, in task order
    scorecard_map,    \* l.90
    bi,               \* index of the next result of the row loop, l.92
    export_data,      \* l.77
    errors,           \* l.73
    exported,         \* the calls of export_to_file, oldest first
    printed,          \* the counts main printed, l.214-216
    rk_in,            \* the argument of identify_top_holding_changes
    rk_pc,            \* ranker position: "idle", "call", "once", "twice", "raised"
    rk_out,           \* what it returned for rk_in
    rk_out2,          \* what it returned for rk_out, or for rk_in and rk_cols
    rk_cols,          \* the ranking columns of the application that gave rk_out2
    rk_k              \* the k of nlargest

nz_vars == <<scorecard_data, nz_pc, nz_i, summary>>
env_vars == <<api, net>>
run_vars == <<pc, data, task, scorecard_results, scorecard_map, bi,
              export_data, errors, exported, printed>>

rk_vars == <<rk_in, rk_pc, rk_out, rk_out2, rk_cols, rk_k>>

vars == <<nz_vars, env_vars, run_vars, rk_vars>>

(***************************************************************************)
(* Scorecard documents                                                     *)
(***************************************************************************)
NA == "N/A"

\* tickertape_api.py l.146-153
category_map ==
    ("Performance" :> "Performance_Score") @@
    ("Valuation" :> "Valuation_Score") @@
    ("Growth" :> "Growth_Score") @@
    ("Profitability" :> "Profitability_Score") @@
    ("Entry point" :> "Entry_Point_Score") @@
    ("Red flags" :> "Red_Flags_Score")

\* l.169: the categories whose tag stands in for a missing score
TagCategories == {"Entry point", "Red flags"}

\* A category name the API may add later; not in category_map.
Unrecognized == "Quality"
Names == DOMAIN category_map \cup {Unrecognized}

\* The 'score' of an item: absent (or null, or {}), a mapping without
\* 'value' (such as {'max': 10}), a truthy value that is no mapping (such as
\* 7), or a mapping with a 'value'.
NoScore == "<absent>"
NoValueScore == "<novalue>"
ScalarScore == "<scalar>"
ScoreValues == {"7"}
Scores == {NoScore, NoValueScore, ScalarScore} \cup ScoreValues

\* The 'tag' of an item: absent, or a string.
NoTag == "<absent>"
Tags == {NoTag, "Attractive"}

\* An element of the 'data' list: a mapping, or something that is none (null).
NullItem == [kind |-> "null", name |-> "", score |-> NoScore, tag |-> NoTag]
DictItems == [kind : {"dict"}, name : Names, score : Scores, tag : Tags]
Items == DictItems \cup {NullItem}

\* The value under 'data': absent, a truthy value that cannot be iterated
\* (such as 5), or a list.
NoData == [kind |-> "absent", items |-> <<>>]
ScalarData == [kind |-> "scalar", items |-> <<>>]
ListData(items) == [kind |-> "list", items |-> items]

\* Documents: None, {}, a falsy value that is no mapping ([] or ""), a truthy
\* value that is no mapping (["x"] or "x"), and a non-empty mapping.
NoneDoc == [kind |-> "None", data |-> NoData]
EmptyDict == [kind |-> "emptydict", data |-> NoData]
FalsyNonMapping == [kind |-> "falsy", data |-> NoData]
TruthyNonMapping == [kind |-> "nonmapping", data |-> NoData]
DictDoc(d) == [kind |-> "dict", data |-> d]

\* The documents without a list under 'data'.
ListlessDocs ==
    {NoneDoc, EmptyDict, FalsyNonMapping, TruthyNonMapping,
     DictDoc(NoData), DictDoc(ScalarData)}

(***************************************************************************)
(* extract_scorecard_summary_csv, tickertape_api.py l.124-176              *)
(***************************************************************************)
\* Python's d[k] = v: the key is added when the dict lacks it.
DictSet(d, k, v) == (k :> v) @@ d

\* Mutant: the default summary lacks a key.
DefaultSummary_FiveKeys ==
    ("Performance_Score" :> NA) @@ ("Valuation_Score" :> NA) @@
    ("Growth_Score" :> NA) @@ ("Profitability_Score" :> NA) @@
    ("Entry_Point_Score" :> NA)

\* l.135-139
DefaultSummary ==
    ("Performance_Score" :> NA) @@ ("Valuation_Score" :> NA) @@
    ("Growth_Score" :> NA) @@ ("Profitability_Score" :> NA) @@
    ("Entry_Point_Score" :> NA) @@ ("Red_Flags_Score" :> NA)

\* l.142, `not scorecard_data`
Falsy(doc) == doc.kind \in {"None", "emptydict", "falsy"}

\* l.142, `scorecard_data.get('data')` of a mapping is falsy: the key is
\* absent or the list is empty.
DataFalsy(doc) ==
    \/ doc.data.kind = "absent"
    \/ doc.data.kind = "list" /\ doc.data.items = <<>>

\* l.160, item.get('tag', '')
TagOf(item) == IF item.tag = NoTag THEN "" ELSE item.tag

\* l.165, `score and 'value' in score` of a score that is a mapping or absent
HasScoreValue(item) == item.score \in ScoreValues

\* Mutant: the tag stands in for a missing score in every category.
ItemStep_TagForAnyCategory(s, item) ==
    IF item.kind # "dict"
    THEN [raised |-> TRUE, summary |-> s]
    ELSE IF item.name \notin DOMAIN category_map
    THEN [raised |-> FALSE, summary |-> s]
    ELSE IF item.score = ScalarScore
    THEN [raised |-> TRUE, summary |-> s]
    ELSE IF HasScoreValue(item)
    THEN [raised |-> FALSE,
          summary |-> DictSet(s, category_map[item.name], item.score)]
    ELSE [raised |-> FALSE,
          summary |-> DictSet(s, category_map[item.name], TagOf(item))]

\* l.158-170, the body of the loop for one item: the summary after it, and
\* whether an exception was raised inside the try block.
ItemStep(s, item) ==
    IF item.kind # "dict"
    THEN [raised |-> TRUE, summary |-> s]                 \* l.158 item.get
    ELSE IF item.name \notin DOMAIN category_map
    THEN [raised |-> FALSE, summary |-> s]                \* l.163
    ELSE IF item.score = ScalarScore
    THEN [raised |-> TRUE, summary |-> s]                 \* l.165 'value' in score
    ELSE IF HasScoreValue(item)
    THEN [raised |-> FALSE,
          summary |-> DictSet(s, category_map[item.name], item.score)]
    ELSE IF item.name \in TagCategories
    THEN [raised |-> FALSE,
          summary |-> DictSet(s, category_map[item.name], TagOf(item))]
    ELSE [raised |-> FALSE, summary |-> s]

\* l.157-176, the loop from item i on: the exception is caught at l.174 and
\* the summary built so far is returned.
RECURSIVE LoopFrom(_, _, _)
LoopFrom(s, items, i) ==
    IF i > Len(items) THEN s
    ELSE LET r == ItemStep(s, items[i])
         IN IF r.raised THEN r.summary ELSE LoopFrom(r.summary, items, i + 1)

\* The whole function: what it returns, or that it raised.
extract_scorecard_summary_csv(doc) ==
    IF Falsy(doc) THEN [raised |-> FALSE, summary |-> DefaultSummary]
    ELSE IF doc.kind # "dict"
    THEN [raised |-> TRUE, summary |-> DefaultSummary]    \* l.142 .get
    ELSE IF DataFalsy(doc) THEN [raised |-> FALSE, summary |-> DefaultSummary]
    ELSE IF doc.data.kind = "scalar"
    THEN [raised |-> FALSE, summary |-> DefaultSummary]   \* l.157, caught l.174
    ELSE [raised |-> FALSE,
          summary |-> LoopFrom(DefaultSummary, doc.data.items, 1)]

\* The same function, one step at a time.
NzGuard ==
    /\ nz_pc = "call"
    /\ IF Falsy(scorecard_data) THEN nz_pc' = "returned"
       ELSE IF scorecard_data.kind # "dict" THEN nz_pc' = "raised"
       ELSE IF DataFalsy(scorecard_data) THEN nz_pc' = "returned"
       ELSE IF scorecard_data.data.kind = "scalar" THEN nz_pc' = "returned"
       ELSE nz_pc' = "loop"
    /\ UNCHANGED <<scorecard_data, nz_i, summary, env_vars, run_vars, rk_vars>>

NzItem ==
    /\ nz_pc = "loop"
    /\ nz_i <= Len(scorecard_data.data.items)
    /\ LET r == ItemStep(summary, scorecard_data.data.items[nz_i])
       IN /\ summary' = r.summary
          /\ nz_pc' = IF r.raised THEN "returned" ELSE "loop"
          /\ nz_i' = IF r.raised THEN nz_i ELSE nz_i + 1
    /\ UNCHANGED <<scorecard_data, env_vars, run_vars, rk_vars>>

NzReturn ==
    /\ nz_pc = "loop"
    /\ nz_i > Len(scorecard_data.data.items)
    /\ nz_pc' = "returned"
    /\ UNCHANGED <<scorecard_data, nz_i, summary, env_vars, run_vars, rk_vars>>

NzNext == NzGuard \/ NzItem \/ NzReturn

(***************************************************************************)
(* Screener results and flat rows                                          *)
(***************************************************************************)
\* Python's dict.get(key, default); None stands for "no default".
DictGet(d, k, default) == IF k \in DOMAIN d THEN d[k] ELSE default

\* Screener.py l.148-153
holding_columns ==
    <<"MF Holding Change (6M)", "MF Holding Change (3M)",
      "FII Holding Change (6M)", "FII Holding Change (3M)">>

\* l.115-118: the key of stock['advancedRatios'] each holding column reads
ratio_key ==
    ("MF Holding Change (6M)" :> "chMutHldng6M") @@
    ("MF Holding Change (3M)" :> "instown3") @@
    ("FII Holding Change (6M)" :> "forInstHldng6M") @@
    ("FII Holding Change (3M)" :> "forInstHldng3M")

\* l.122-127: the summary key each score column reads
score_key ==
    ("Valuation Score" :> "Valuation_Score") @@
    ("Performance Score" :> "Performance_Score") @@
    ("Profitability Score" :> "Profitability_Score") @@
    ("Growth Score" :> "Growth_Score") @@
    ("Entry Point Score" :> "Entry_Point_Score") @@
    ("Red Flags Score" :> "Red_Flags_Score")

ScoreColumns == DOMAIN score_key
HoldingColumns == {holding_columns[i] : i \in DOMAIN holding_columns}
FlagColumn == "Top 20 All Columns"

\* The advancedRatios of a screener result: a dict that may lack keys.
NoRatios == <<>>
AllRatios(v) == [k \in {ratio_key[c] : c \in HoldingColumns} |-> v]
RunRatios == {NoRatios, AllRatios(1)}

\* The i-th result of the screener: its sid, its ticker and its ratios. The
\* results of one query are distinct stocks.
SidOf(i) == 100 + i
Stock(i, ratios) == [sid |-> SidOf(i), ticker |-> i, ratios |-> ratios]
ResultsOf(rs) == [i \in DOMAIN rs |-> Stock(i, rs[i])]

\* l.107-128: the flat row of a result and a summary. The other columns
\* (Company Name, Sector, PE Ratio, ...) are copied from the result the way
\* Ticker and the holding columns are.
stock_entry(stock_data, scorecard_summary) ==
    ("Ticker" :> stock_data.ticker) @@
    [c \in HoldingColumns |-> DictGet(stock_data.ratios, ratio_key[c], 0)] @@
    [c \in ScoreColumns |-> DictGet(scorecard_summary, score_key[c], NA)]

(***************************************************************************)
(* identify_top_holding_changes, Screener.py l.134-194                     *)
(***************************************************************************)
\* nlargest(20, column), l.162. The model scales the 20 down so that a
\* list within the bounds has rows beyond the k-th.
TopK == 2

Max(S) == CHOOSE x \in S : \A y \in S : y <= x

\* DataFrame.nlargest(n, column), keep='first': the n rows of the largest
\* values, largest first, the earlier row first among equal values.
RECURSIVE nlargest(_, _, _)
nlargest(df, n, column) ==
    IF n = 0 \/ df = <<>> THEN <<>>
    ELSE LET m == Max({df[i][column] : i \in DOMAIN df})
             i == CHOOSE i \in DOMAIN df :
                      /\ df[i][column] = m
                      /\ \A j \in 1..(i - 1) : df[j][column] # m
         IN <<df[i]>> \o
            nlargest(SubSeq(df, 1, i - 1) \o SubSeq(df, i + 1, Len(df)), n - 1, column)

\* Mutant: one row too few is taken.
top_20_per_column_OneShort(df, columns, k) ==
    [c \in {columns[i] : i \in DOMAIN columns} |->
        LET top_20 == nlargest(df, k - 1, c)
        IN {top_20[i][c] : i \in DOMAIN top_20}]

\* l.160-164
top_20_per_column(df, columns, k) ==
    [c \in {columns[i] : i \in DOMAIN columns} |->
        LET top_20 == nlargest(df, k, c)
        IN {top_20[i][c] : i \in DOMAIN top_20}]

\* l.175-183, the lambda
TopFlag(row, top, columns) ==
    IF \A i \in DOMAIN columns : row[columns[i]] \in top[columns[i]]
    THEN "Yes" ELSE "No"

\* Mutant: the top sets are taken among the rows not flagged "Yes" yet.
annotate_top_set_AmongUnflagged(rows, columns, k) ==
    IF rows = <<>> /\ columns # <<>>
    THEN [raised |-> TRUE, rows |-> rows]
    ELSE LET IsFresh(r) == ~(FlagColumn \in DOMAIN r /\ r[FlagColumn] = "Yes")
             top == top_20_per_column(SelectSeq(rows, IsFresh), columns, k)
         IN [raised |-> FALSE,
             rows |-> [i \in DOMAIN rows |->
                         (FlagColumn :> TopFlag(rows[i], top, columns)) @@ rows[i]]]

\* l.145-192 for a list of columns and a k: pd.DataFrame([]) has no columns,
\* so nlargest raises KeyError on an empty list when there is a column.
annotate_top_set(rows, columns, k) ==
    IF rows = <<>> /\ columns # <<>>
    THEN [raised |-> TRUE, rows |-> rows]
    ELSE LET top == top_20_per_column(rows, columns, k)
         IN [raised |-> FALSE,
             rows |-> [i \in DOMAIN rows |->
                         (FlagColumn :> TopFlag(rows[i], top, columns)) @@ rows[i]]]

identify_top_holding_changes(rows) == annotate_top_set(rows, holding_columns, TopK)

(***************************************************************************)
(* The scorecard endpoint                                                  *)
(***************************************************************************)
\* A scorecard with one scored category.
GoodDoc ==
    DictDoc(ListData(<<[kind |-> "dict", name |-> "Performance",
                        score |-> "7", tag |-> NoTag]>>))
RunDocs == {GoodDoc, TruthyNonMapping}

\* What session.get does for one sid: it raises (a network error), or it
\* answers with a status; the body of a 200 is JSON or is not.
Raises == [kind |-> "exception", status |-> 0, json |-> FALSE, body |-> NoneDoc]
Status(st) == [kind |-> "http", status |-> st, json |-> FALSE, body |-> NoneDoc]
Malformed == [kind |-> "http", status |-> 200, json |-> FALSE, body |-> NoneDoc]
Json(doc) == [kind |-> "http", status |-> 200, json |-> TRUE, body |-> doc]
Outcomes == {Raises, Status(404), Status(204), Malformed} \cup {Json(d) : d \in RunDocs}

\* Mutant: the network error is not caught.
fetch_scorecard_async_Uncaught(sid, o) ==
    IF o.kind = "exception"
    THEN [raised |-> TRUE, sid |-> sid, scorecard |-> NoneDoc]
    ELSE IF o.status = 200 /\ o.json
    THEN [raised |-> FALSE, sid |-> sid, scorecard |-> o.body]
    ELSE [raised |-> FALSE, sid |-> sid, scorecard |-> NoneDoc]

\* fetch_scorecard_async, l.34-61: what the coroutine returns for an outcome.
fetch_scorecard_async(sid, o) ==
    IF o.kind = "exception"
    THEN [raised |-> FALSE, sid |-> sid, scorecard |-> NoneDoc]       \* l.59-61
    ELSE IF o.status = 200
    THEN IF o.json
         THEN [raised |-> FALSE, sid |-> sid, scorecard |-> o.body]   \* l.54-55
         ELSE [raised |-> FALSE, sid |-> sid, scorecard |-> NoneDoc]  \* l.54, l.59-61
    ELSE [raised |-> FALSE, sid |-> sid, scorecard |-> NoneDoc]       \* l.56-58

(***************************************************************************)
(* main and process_stock_data_async                                       *)
(***************************************************************************)
NoResult == [raised |-> FALSE, sid |-> 0, scorecard |-> NoneDoc]
NoErrors == [scorecard_fetch_errors |-> 0, scorecard_parse_errors |-> 0]
NotPrinted == [total |-> -1, fetch_errors |-> -1, parse_errors |-> -1]

\* fetch_screener_data, l.14-32: None on a RequestException, else the JSON.
\* The screener answers with results, with an empty JSON value, or fails.
ApiError == [kind |-> "error", results |-> <<>>]
ApiEmpty == [kind |-> "empty", results |-> <<>>]
ApiResults(rs) == [kind |-> "results", results |-> rs]

fetch_screener_data(answer) ==
    IF answer.kind = "error" THEN [kind |-> "None", results |-> <<>>]
    ELSE answer

\* l.200-203
Main_FetchScreener ==
    /\ pc = "start"
    /\ LET d == fetch_screener_data(api)
       IN /\ data' = d
          /\ pc' = IF d.kind # "results" THEN "failed" ELSE "process"
    /\ UNCHANGED <<nz_vars, rk_vars, env_vars, task, scorecard_results, scorecard_map, bi,
                   export_data, errors, exported, printed>>

\* l.73-87: the tasks are created and gather awaits them.
CreateTasks ==
    /\ pc = "process"
    /\ errors' = NoErrors
    /\ export_data' = <<>>
    /\ task' = [i \in DOMAIN data.results |-> "created"]
    /\ scorecard_results' = [i \in DOMAIN data.results |-> NoResult]
    /\ pc' = "gather"
    /\ UNCHANGED <<nz_vars, rk_vars, env_vars, data, scorecard_map, bi, exported, printed>>

\* A task runs up to its await of session.get, l.46.
TaskStart(i) ==
    /\ pc = "gather"
    /\ task[i] = "created"
    /\ task' = [task EXCEPT ![i] = "waiting"]
    /\ UNCHANGED <<nz_vars, rk_vars, env_vars, pc, data, scorecard_results, scorecard_map, bi,
                   export_data, errors, exported, printed>>

\* Mutant: a result is stored, and paired with a sid, by its order of arrival.
TaskSettle_ByArrival(i) ==
    /\ pc = "gather"
    /\ task[i] = "waiting"
    /\ LET k == 1 + Cardinality({j \in DOMAIN task : task[j] \in {"done", "raised"}})
           r == fetch_scorecard_async(data.results[k].sid, net[i])
       IN /\ scorecard_results' = [scorecard_results EXCEPT ![k] = r]
          /\ task' = [task EXCEPT ![i] = IF r.raised THEN "raised" ELSE "done"]
    /\ UNCHANGED <<nz_vars, rk_vars, env_vars, pc, data, scorecard_map, bi,
                   export_data, errors, exported, printed>>

\* The request of a task settles and the task runs to its end, l.52-61.
TaskSettle(i) ==
    /\ pc = "gather"
    /\ task[i] = "waiting"
    /\ LET r == fetch_scorecard_async(data.results[i].sid, net[i])
       IN /\ scorecard_results' = [scorecard_results EXCEPT ![i] = r]
          /\ task' = [task EXCEPT ![i] = IF r.raised THEN "raised" ELSE "done"]
    /\ UNCHANGED <<nz_vars, rk_vars, env_vars, pc, data, scorecard_map, bi,
                   export_data, errors, exported, printed>>

\* l.90: the dict comprehension over the results, a later pair replacing an
\* earlier one of the same sid.
MapOf(results) ==
    [s \in {results[i].sid : i \in DOMAIN results} |->
        LET last == Max({i \in DOMAIN results : results[i].sid = s})
        IN results[last].scorecard]

\* Mutant: the wait ends with the first task that is done.
GatherReturns_FirstCompleted ==
    /\ pc = "gather"
    /\ IF \E i \in DOMAIN task : task[i] = "raised"
       THEN /\ pc' = "crashed"
            /\ UNCHANGED <<scorecard_map, bi>>
       ELSE /\ task = <<>> \/ \E i \in DOMAIN task : task[i] = "done"
            /\ scorecard_map' = MapOf(scorecard_results)
            /\ bi' = 1
            /\ pc' = "build"
    /\ UNCHANGED <<nz_vars, rk_vars, env_vars, data, task, scorecard_results,
                   export_data, errors, exported, printed>>

\* l.87-90: gather returns once every task is done, or raises the first
\* exception of a task as soon as there is one.
GatherReturns ==
    /\ pc = "gather"
    /\ IF \E i \in DOMAIN task : task[i] = "raised"
       THEN /\ pc' = "crashed"
            /\ UNCHANGED <<scorecard_map, bi>>
       ELSE /\ \A i \in DOMAIN task : task[i] = "done"
            /\ scorecard_map' = MapOf(scorecard_results)
            /\ bi' = 1
            /\ pc' = "build"
    /\ UNCHANGED <<nz_vars, rk_vars, env_vars, data, task, scorecard_results,
                   export_data, errors, exported, printed>>

\* l.97-104: the summary of one result, and whether parsing it failed.
SummaryFor(stock_data, map) ==
    LET scorecard == DictGet(map, stock_data.sid, NoneDoc)           \* l.97
        r == extract_scorecard_summary_csv(scorecard)
    IN IF Falsy(scorecard) THEN [failed |-> FALSE, summary |-> <<>>] \* l.100
       ELSE IF r.raised THEN [failed |-> TRUE, summary |-> <<>>]     \* l.101-104
       ELSE [failed |-> FALSE, summary |-> r.summary]

\* Mutant: a result without a scorecard gets no row.
LoopBody_SkipsMissing(rows, stock_data, map) ==
    IF Falsy(DictGet(map, stock_data.sid, NoneDoc)) THEN rows
    ELSE Append(rows, stock_entry(stock_data, SummaryFor(stock_data, map).summary))

\* l.92-130: one turn of the loop appends one row.
LoopBody(rows, stock_data, map) ==
    Append(rows, stock_entry(stock_data, SummaryFor(stock_data, map).summary))

BuildRow ==
    /\ pc = "build"
    /\ bi <= Len(data.results)
    /\ export_data' = LoopBody(export_data, data.results[bi], scorecard_map)
    /\ errors' = IF SummaryFor(data.results[bi], scorecard_map).failed
                 THEN [errors EXCEPT !.scorecard_parse_errors = @ + 1]
                 ELSE errors
    /\ bi' = bi + 1
    /\ UNCHANGED <<nz_vars, rk_vars, env_vars, pc, data, task, scorecard_results,
                   scorecard_map, exported, printed>>

\* Mutant: main exports the rows before it ranks them.
BuildReturns_SkipsRank ==
    /\ pc = "build"
    /\ bi > Len(data.results)
    /\ pc' = "export"
    /\ UNCHANGED <<nz_vars, rk_vars, env_vars, data, task, scorecard_results, scorecard_map,
                   bi, export_data, errors, exported, printed>>

\* l.132 and l.206
BuildReturns ==
    /\ pc = "build"
    /\ bi > Len(data.results)
    /\ pc' = "rank"
    /\ UNCHANGED <<nz_vars, rk_vars, env_vars, data, task, scorecard_results, scorecard_map,
                   bi, export_data, errors, exported, printed>>

\* l.209
Main_Rank ==
    /\ pc = "rank"
    /\ LET r == identify_top_holding_changes(export_data)
       IN /\ export_data' = r.rows
          /\ pc' = IF r.raised THEN "crashed" ELSE "export"
    /\ UNCHANGED <<nz_vars, rk_vars, env_vars, data, task, scorecard_results, scorecard_map,
                   bi, errors, exported, printed>>

\* l.212
Main_Export ==
    /\ pc = "export"
    /\ exported' = Append(exported, export_data)
    /\ pc' = "print"
    /\ UNCHANGED <<nz_vars, rk_vars, env_vars, data, task, scorecard_results, scorecard_map,
                   bi, export_data, errors, printed>>

\* l.214-216
Main_Print ==
    /\ pc = "print"
    /\ printed' = [total |-> Len(export_data),
                   fetch_errors |-> errors.scorecard_fetch_errors,
                   parse_errors |-> errors.scorecard_parse_errors]
    /\ pc' = "done"
    /\ UNCHANGED <<nz_vars, rk_vars, env_vars, data, task, scorecard_results, scorecard_map,
                   bi, export_data, errors, exported>>

(***************************************************************************)
(* The ranker alone, applied to a list of rows and then to its own output  *)
(***************************************************************************)
HoldingValues == {0, 1}
RatioDicts == [{ratio_key[c] : c \in HoldingColumns} -> HoldingValues]

\* A list of flat rows as the row loop builds them.
RowsOf(rs) == [i \in DOMAIN rs |-> stock_entry(Stock(i, rs[i]), <<>>)]

RkFirst ==
    /\ rk_pc = "call"
    /\ LET r == identify_top_holding_changes(rk_in)
       IN /\ rk_out' = r.rows
          /\ rk_pc' = IF r.raised THEN "raised" ELSE "once"
    /\ UNCHANGED <<nz_vars, env_vars, run_vars, rk_in, rk_out2, rk_cols, rk_k>>

RkAgain ==
    /\ rk_pc = "once"
    /\ LET r == identify_top_holding_changes(rk_out)
       IN /\ rk_out2' = r.rows
          /\ rk_pc' = IF r.raised THEN "raised" ELSE "twice"
    /\ UNCHANGED <<nz_vars, env_vars, run_vars, rk_in, rk_out, rk_cols, rk_k>>

(***************************************************************************)
(* The ranker with a column less: l.148-183 with one of the four columns   *)
(* taken out of holding_columns and of the conjunctions, for any k         *)
(***************************************************************************)
\* The list of columns without its j-th.
WithoutColumn(columns, j) ==
    SubSeq(columns, 1, j - 1) \o SubSeq(columns, j + 1, Len(columns))

ColsFull ==
    /\ rk_pc = "call"
    /\ LET r == annotate_top_set(rk_in, holding_columns, rk_k)
       IN /\ rk_out' = r.rows
          /\ rk_pc' = IF r.raised THEN "raised" ELSE "once"
    /\ UNCHANGED <<nz_vars, env_vars, run_vars, rk_in, rk_out2, rk_cols, rk_k>>

ColsFewer(j) ==
    /\ rk_pc = "once"
    /\ rk_cols' = WithoutColumn(holding_columns, j)
    /\ LET r == annotate_top_set(rk_in, rk_cols', rk_k)
       IN /\ rk_out2' = r.rows
          /\ rk_pc' = IF r.raised THEN "raised" ELSE "fewer"
    /\ UNCHANGED <<nz_vars, env_vars, run_vars, rk_in, rk_out, rk_k>>

(***************************************************************************)
(* Specifications                                                          *)
(***************************************************************************)
RkIdle ==
    /\ rk_in = <<>>
    /\ rk_pc = "idle"
    /\ rk_out = <<>>
    /\ rk_out2 = <<>>
    /\ rk_cols = holding_columns
    /\ rk_k = TopK

NzIdle ==
    /\ scorecard_data = NoneDoc
    /\ nz_pc = "idle"
    /\ nz_i = 1
    /\ summary = DefaultSummary

RunIdle ==
    /\ api = ApiError
    /\ net = <<>>
    /\ pc = "idle"
    /\ data = [kind |-> "None", results |-> <<>>]
    /\ task = <<>>
    /\ scorecard_results = <<>>
    /\ scorecard_map = <<>>
    /\ bi = 1
    /\ export_data = <<>>
    /\ errors = NoErrors
    /\ exported = <<>>
    /\ printed = NotPrinted

\* The normalizer on every document within the bounds.
NzInit ==
    /\ \/ scorecard_data \in ListlessDocs
       \/ \E m \in 0..MaxItems : \E items \in [1..m -> Items] :
              scorecard_data = DictDoc(ListData(items))
    /\ nz_pc = "call"
    /\ nz_i = 1
    /\ summary = DefaultSummary
    /\ RunIdle
    /\ RkIdle

SpecNorm == NzInit /\ [][NzNext]_vars

\* One run of main, for every answer of the two endpoints.
RunInit ==
    /\ NzIdle
    /\ RkIdle
    /\ \/ api \in {ApiError, ApiEmpty}
       \/ \E n \in 0..MaxStocks : \E rs \in [1..n -> RunRatios] :
              api = ApiResults(ResultsOf(rs))
    /\ net \in [DOMAIN api.results -> Outcomes]
    /\ pc = "start"
    /\ data = [kind |-> "None", results |-> <<>>]
    /\ task = <<>>
    /\ scorecard_results = <<>>
    /\ scorecard_map = <<>>
    /\ bi = 1
    /\ export_data = <<>>
    /\ errors = NoErrors
    /\ exported = <<>>
    /\ printed = NotPrinted

RunNext ==
    \/ Main_FetchScreener
    \/ CreateTasks
    \/ \E i \in DOMAIN task : TaskStart(i)
    \/ \E i \in DOMAIN task : TaskSettle(i)
    \/ GatherReturns
    \/ BuildRow
    \/ BuildReturns
    \/ Main_Rank
    \/ Main_Export
    \/ Main_Print

SpecRun == RunInit /\ [][RunNext]_vars

\* The ranker on every list of rows within the bounds.
RkInit ==
    /\ NzIdle
    /\ RunIdle
    /\ \E n \in 0..MaxRows : \E rs \in [1..n -> RatioDicts] : rk_in = RowsOf(rs)
    /\ rk_pc = "call"
    /\ rk_out = <<>>
    /\ rk_out2 = <<>>
    /\ rk_cols = holding_columns
    /\ rk_k = TopK

RkNext == RkFirst \/ RkAgain

SpecRank == RkInit /\ [][RkNext]_vars

\* The ranker over the four columns and over three of them, on every list
\* of rows within the bounds and for every k up to one more than its length.
ColsInit ==
    /\ NzIdle
    /\ RunIdle
    /\ \E n \in 0..MaxRows : \E rs \in [1..n -> RatioDicts] : rk_in = RowsOf(rs)
    /\ rk_pc = "call"
    /\ rk_out = <<>>
    /\ rk_out2 = <<>>
    /\ rk_cols = holding_columns
    /\ rk_k \in 1..(MaxRows + 1)

ColsNext == ColsFull \/ \E j \in DOMAIN holding_columns : ColsFewer(j)

SpecCols == ColsInit /\ [][ColsNext]_vars

(***************************************************************************)
(* Properties of the normalizer (SpecNorm)                                 *)
(***************************************************************************)
SixKeys ==
    {"Performance_Score", "Valuation_Score", "Growth_Score",
     "Profitability_Score", "Entry_Point_Score", "Red_Flags_Score"}

KnownCategories ==
    {"Performance", "Valuation", "Growth", "Profitability", "Entry point", "Red flags"}

KeyOfCategory ==
    ("Performance" :> "Performance_Score") @@ ("Valuation" :> "Valuation_Score") @@
    ("Growth" :> "Growth_Score") @@ ("Profitability" :> "Profitability_Score") @@
    ("Entry point" :> "Entry_Point_Score") @@ ("Red flags" :> "Red_Flags_Score")

ItemsOf(doc) == doc.data.items

\* A category item as the API documents it: a mapping whose score, when
\* there is one, is a mapping.
IsCategoryItem(item) == item.kind = "dict" /\ item.score # ScalarScore

\* None, {}, a document without 'data', or a document with a list of
\* category items.
IsScorecard(doc) ==
    \/ doc \in {NoneDoc, EmptyDict}
    \/ /\ doc.kind = "dict"
       /\ doc.data.kind \in {"absent", "list"}
       /\ \A i \in DOMAIN ItemsOf(doc) : IsCategoryItem(ItemsOf(doc)[i])

Occurs(items, n) == \E i \in DOMAIN items : items[i].kind = "dict" /\ items[i].name = n

\* C1: for None, {}, a document without 'data' and a document whose 'data'
\* lists category items (known or not), the normalizer returns, and what it
\* returns has exactly the six keys, with "N/A" under every key whose
\* category the document lacks; for None and {} all six are "N/A".
C1_AlwaysSixKeys ==
    IsScorecard(scorecard_data) =>
        /\ nz_pc # "raised"
        /\ nz_pc = "returned" =>
            /\ DOMAIN summary = SixKeys
            /\ \A n \in KnownCategories :
                   ~Occurs(ItemsOf(scorecard_data), n) => summary[KeyOfCategory[n]] = NA
            /\ scorecard_data \in {NoneDoc, EmptyDict} =>
                   \A k \in SixKeys : summary[k] = NA

C1_Witness ==
    /\ nz_pc = "returned"
    /\ scorecard_data.kind = "dict"
    /\ Len(ItemsOf(scorecard_data)) = 2
    /\ Occurs(ItemsOf(scorecard_data), "Valuation")
    /\ Occurs(ItemsOf(scorecard_data), Unrecognized)
    /\ IsScorecard(scorecard_data)
    /\ summary["Valuation_Score"] = "7"
    /\ summary["Growth_Score"] = NA

\* The items of category n that set its value: those with a score value,
\* and for Entry point and Red flags those without one too (by their tag).
Setting(items, n) ==
    {i \in DOMAIN items :
        /\ items[i].name = n
        /\ items[i].score \in ScoreValues \/ n \in {"Entry point", "Red flags"}}

\* An Entry point or Red flags item with neither a score value nor a tag.
Bare(item) == item.score \notin ScoreValues /\ item.tag = NoTag

\* C2: in the summary returned for a document of category items, the value
\* of each known category is the score value of its item when the item has
\* one, else the item's tag when the category is Entry point or Red flags,
\* else "N/A" (the last such item deciding when a category is listed more
\* than once); items of unrecognized names change nothing and add no key.
\* Entry point and Red flags items with neither score nor tag are C3's.
C2_ScoreElseTagElseNA ==
    (nz_pc = "returned" /\ IsScorecard(scorecard_data)) =>
        /\ DOMAIN summary = SixKeys
        /\ \A n \in KnownCategories :
            LET items == ItemsOf(scorecard_data)
                set == Setting(items, n)
            IN (\A i \in set : ~Bare(items[i])) =>
                   summary[KeyOfCategory[n]] =
                       IF set = {} THEN NA
                       ELSE LET last == items[Max(set)]
                            IN IF last.score \in ScoreValues THEN last.score
                               ELSE last.tag

C2_Witness ==
    /\ nz_pc = "returned"
    /\ IsScorecard(scorecard_data)
    /\ \E i \in DOMAIN ItemsOf(scorecard_data) :
           ItemsOf(scorecard_data)[i] =
               [kind |-> "dict", name |-> "Entry point", score |-> NoScore,
                tag |-> "Attractive"]
    /\ \E i \in DOMAIN ItemsOf(scorecard_data) :
           /\ ItemsOf(scorecard_data)[i].name = "Growth"
           /\ ItemsOf(scorecard_data)[i].score = NoScore
    /\ summary["Entry_Point_Score"] = "Attractive"
    /\ summary["Growth_Score"] = NA

\* C3: a known category that the document lists with no score and no tag
\* keeps "N/A", Entry point and Red flags included.
C3_NoScoreNoTagStaysNA ==
    (nz_pc = "returned" /\ IsScorecard(scorecard_data)) =>
        \A n \in KnownCategories :
            LET items == ItemsOf(scorecard_data)
            IN (/\ Occurs(items, n)
                /\ \A i \in DOMAIN items :
                       items[i].name = n => items[i].score = NoScore /\ items[i].tag = NoTag)
               => summary[KeyOfCategory[n]] = NA

\* The traversal fails at an item that is no mapping, and at an item of a
\* known category whose score is no mapping.
Malforms(item) ==
    \/ item.kind # "dict"
    \/ item.name \in KnownCategories /\ item.score = ScalarScore

\* The items before the malformed point.
RECURSIVE SoundPrefix(_)
SoundPrefix(items) ==
    IF items = <<>> \/ Malforms(Head(items)) THEN <<>>
    ELSE <<Head(items)>> \o SoundPrefix(Tail(items))

\* C4: the normalizer raises for no document, however malformed, and what
\* it returns has the six keys, with the values set by the items before the
\* malformed point and "N/A" elsewhere.
C4_NeverRaises ==
    /\ nz_pc # "raised"
    /\ nz_pc = "returned" =>
        /\ DOMAIN summary = SixKeys
        /\ \A n \in KnownCategories :
            LET items == SoundPrefix(ItemsOf(scorecard_data))
                set == Setting(items, n)
            IN summary[KeyOfCategory[n]] =
                   IF set = {} THEN NA
                   ELSE LET last == items[Max(set)]
                        IN IF last.score \in ScoreValues THEN last.score
                           ELSE IF last.tag = NoTag THEN "" ELSE last.tag

(***************************************************************************)
(* Properties of the fetch and of the row builder (SpecRun)                *)
(***************************************************************************)
\* A retrieval succeeds when the endpoint answers 200 with a JSON document;
\* it fails on a network error, on another status and on a malformed body.
Succeeded(o) == o.kind = "http" /\ o.status = 200 /\ o.json

Requested == {data.results[i].sid : i \in DOMAIN data.results}

\* gather has returned to process_stock_data_async.
Gathered == pc \in {"build", "rank", "export", "print", "done"}

\* C5: no failure of a retrieval leaves the batch: no task ends with an
\* exception, every task runs to its end with the result of its own request,
\* and once gather has returned the map has an entry for every requested
\* sid, the document for the sids whose retrieval succeeded and None for the
\* others.
C5_FailuresStayPerId ==
    /\ \A i \in DOMAIN task : task[i] # "raised"
    /\ pc = "crashed" => \A i \in DOMAIN task : task[i] = "done"
    /\ \A i \in DOMAIN task :
           task[i] = "done" =>
               /\ scorecard_results[i].sid = data.results[i].sid
               /\ scorecard_results[i].scorecard =
                      IF Succeeded(net[i]) THEN net[i].body ELSE NoneDoc
    /\ Gathered =>
        /\ \A i \in DOMAIN task : task[i] = "done"
        /\ DOMAIN scorecard_map = Requested
        /\ \A i \in DOMAIN data.results :
               scorecard_map[data.results[i].sid] =
                   IF Succeeded(net[i]) THEN net[i].body ELSE NoneDoc

C5_Witness ==
    /\ pc = "build"
    /\ Len(data.results) = 3
    /\ net[1] = Json(GoodDoc)
    /\ net[2] = Raises
    /\ net[3] = Status(404)
    /\ scorecard_map[SidOf(1)] = GoodDoc
    /\ scorecard_map[SidOf(2)] = NoneDoc
    /\ scorecard_map[SidOf(3)] = NoneDoc

\* C6: the fetch-failure count main prints is the number of sids whose
\* retrieval failed.
C6_FailureCountIsFailures ==
    pc = "done" =>
        printed.fetch_errors = Cardinality({i \in DOMAIN net : ~Succeeded(net[i])})

\* C7: the rows built so far are those of the first results, in order, one
\* each; when the loop ends there is one row per result; a row whose sid has
\* no document, or whose document makes the normalizer raise, has "N/A" in
\* all six score columns.
C7_OneRowPerResult ==
    pc \in {"build", "rank"} =>
        /\ Len(export_data) = bi - 1
        /\ pc = "rank" => Len(export_data) = Len(data.results)
        /\ \A i \in DOMAIN export_data :
            LET stock_data == data.results[i]
                row == export_data[i]
                doc == scorecard_map[stock_data.sid]
            IN /\ row["Ticker"] = stock_data.ticker
               /\ \A c \in HoldingColumns :
                      row[c] = IF ratio_key[c] \in DOMAIN stock_data.ratios
                               THEN stock_data.ratios[ratio_key[c]] ELSE 0
               /\ (doc = NoneDoc \/ extract_scorecard_summary_csv(doc).raised)
                      => \A c \in ScoreColumns : row[c] = NA

C7_Witness ==
    /\ pc = "rank"
    /\ Len(export_data) = 3
    /\ net[1] = Json(GoodDoc)
    /\ net[2] = Json(TruthyNonMapping)
    /\ net[3] = Raises
    /\ export_data[1]["Performance Score"] = "7"
    /\ export_data[2]["Performance Score"] = NA
    /\ export_data[3]["Performance Score"] = NA
    /\ errors.scorecard_parse_errors = 1

\* A retrieval is outstanding: its task is created and has not run to its end.
Outstanding(i) == task[i] \in {"created", "waiting"}

\* C12: in every interleaving, while a retrieval is outstanding no map is
\* built, no row is built and nothing is returned or exported; one retrieval
\* is issued per result, and from the row loop on all of them have settled.
C12_FanInBarrier ==
    /\ (\E i \in DOMAIN task : Outstanding(i)) =>
           /\ pc = "gather"
           /\ scorecard_map = <<>>
           /\ bi = 1
           /\ export_data = <<>>
           /\ exported = <<>>
    /\ pc \in {"build", "rank", "export", "print", "done", "crashed"} =>
           /\ DOMAIN task = DOMAIN data.results
           /\ \A i \in DOMAIN task : ~Outstanding(i)

C12_Witness ==
    /\ pc = "build"
    /\ bi = 2
    /\ Len(task) = 3
    /\ net[1] = Status(404)
    /\ net[3] = Json(GoodDoc)
    /\ \A i \in DOMAIN task : task[i] = "done"
    /\ Len(export_data) = 1

\* C13: export_to_file is called at most once, and only after the screener
\* answered with results, every retrieval settled, the row loop ended with a
\* row per result and the ranker flagged every row; when the screener query
\* fails, main ends with no task, no row and no export.
C13_ExportAfterPipeline ==
    /\ exported # <<>> =>
           /\ Len(exported) = 1
           /\ pc \in {"print", "done"}
           /\ api.kind = "results"
           /\ data = api
           /\ DOMAIN task = DOMAIN data.results
           /\ \A i \in DOMAIN task : task[i] = "done"
           /\ bi = Len(data.results) + 1
           /\ Len(exported[1]) = Len(data.results)
           /\ \A i \in DOMAIN exported[1] :
                  /\ FlagColumn \in DOMAIN exported[1][i]
                  /\ exported[1][i][FlagColumn] \in {"Yes", "No"}
                  /\ exported[1][i]["Ticker"] = data.results[i].ticker
    /\ (api.kind # "results" /\ pc # "start") =>
           /\ pc = "failed"
           /\ task = <<>>
           /\ export_data = <<>>
           /\ exported = <<>>
           /\ printed = NotPrinted

C13_Witness ==
    /\ pc = "done"
    /\ Len(exported) = 1
    /\ Len(exported[1]) = 3
    /\ net[2] = Malformed
    /\ \E i \in DOMAIN exported[1] : exported[1][i][FlagColumn] = "Yes"
    /\ \E i \in DOMAIN exported[1] : exported[1][i][FlagColumn] = "No"

\* The document retrieved for the i-th result's own sid, None when its
\* retrieval failed, and the score that document gives a column.
OwnDoc(i) == IF Succeeded(net[i]) THEN net[i].body ELSE NoneDoc
OwnScore(i, c) ==
    LET r == extract_scorecard_summary_csv(OwnDoc(i))
    IN IF OwnDoc(i) = NoneDoc \/ r.raised THEN NA ELSE r.summary[score_key[c]]

\* C14: whatever the order in which the retrievals complete, the map and the
\* rows are those the results and the answers of the endpoint determine: the
\* map gives each sid its own document, and the six score columns of each
\* row come from the document of the row's own sid.
C14_CompletionOrderFree ==
    /\ Gathered =>
           scorecard_map =
               [s \in Requested |->
                   OwnDoc(CHOOSE i \in DOMAIN data.results : data.results[i].sid = s)]
    /\ \A i \in DOMAIN export_data :
           /\ export_data[i]["Ticker"] = data.results[i].ticker
           /\ \A c \in ScoreColumns : export_data[i][c] = OwnScore(i, c)

C14_Witness ==
    /\ pc = "rank"
    /\ Len(export_data) = 3
    /\ net[1] = Status(204)
    /\ net[2] = Json(GoodDoc)
    /\ net[3] = Malformed
    /\ export_data[1]["Performance Score"] = NA
    /\ export_data[2]["Performance Score"] = "7"
    /\ export_data[3]["Performance Score"] = NA

(***************************************************************************)
(* Properties of the ranker (SpecRank)                                     *)
(***************************************************************************)
\* The distinct values among the k rows of the largest values of a column:
\* the values that fewer than k rows exceed.
TopValues(rows, c, k) ==
    {v \in {rows[i][c] : i \in DOMAIN rows} :
        Cardinality({j \in DOMAIN rows : rows[j][c] > v}) < k}

Flagged(rows) == {i \in DOMAIN rows : rows[i][FlagColumn] = "Yes"}

\* C8: after the ranker, a row is flagged "Yes" exactly when, in each of the
\* four holding columns, its value is one of the distinct values of the top
\* k rows of that column, and is flagged "No" otherwise; rows that tie with
\* the k-th value all qualify.
C8_FlagIffInEveryTopSet ==
    rk_pc \in {"once", "twice"} =>
        \A i \in DOMAIN rk_in :
            /\ rk_out[i][FlagColumn] \in {"Yes", "No"}
            /\ rk_out[i][FlagColumn] = "Yes" <=>
                   \A c \in HoldingColumns : rk_in[i][c] \in TopValues(rk_in, c, TopK)

\* More rows than k qualify for a column by a tie at the k-th value, and
\* another column leaves a row out.
C8_Witness ==
    /\ rk_pc = "once"
    /\ Len(rk_in) > TopK
    /\ \A i \in DOMAIN rk_in : rk_in[i]["MF Holding Change (6M)"] = IF i = 1 THEN 1 ELSE 0
    /\ \A i \in DOMAIN rk_in : rk_in[i]["MF Holding Change (3M)"] = IF i <= TopK THEN 1 ELSE 0
    /\ Flagged(rk_out) = 1..TopK

\* C9: the ranker applied to its own output returns that output: the same
\* rows with the same flags.
C9_Idempotent ==
    rk_pc = "twice" =>
        /\ rk_out2 = rk_out
        /\ \A i \in DOMAIN rk_out : rk_out2[i][FlagColumn] = rk_out[i][FlagColumn]

C9_Witness ==
    /\ rk_pc = "twice"
    /\ Flagged(rk_out2) # {}
    /\ Flagged(rk_out2) # DOMAIN rk_out2

\* C10: for a list of rows of any length the ranker returns a list of the
\* same length, with the same rows in the same order, every column but the
\* flag unchanged.
C10_SameRowsOnlyFlagSet ==
    rk_pc # "call" =>
        /\ rk_pc # "raised"
        /\ Len(rk_out) = Len(rk_in)
        /\ \A i \in DOMAIN rk_in :
               /\ DOMAIN rk_out[i] = DOMAIN rk_in[i] \cup {FlagColumn}
               /\ \A c \in DOMAIN rk_in[i] : rk_out[i][c] = rk_in[i][c]

(***************************************************************************)
(* Properties of the ranker with a column less (SpecCols)                  *)
(***************************************************************************)
\* C11: for every list of rows and every k the ranker returns as many rows
\* as it was given, between none and all of them flagged, and the rows it
\* flags over the four columns are flagged over any three of them too.
C11_MonotoneInColumns ==
    rk_pc # "call" =>
        /\ rk_pc # "raised"
        /\ Len(rk_out) = Len(rk_in)
        /\ Cardinality(Flagged(rk_out)) \in 0..Len(rk_in)
        /\ rk_pc = "fewer" =>
            /\ Len(rk_out2) = Len(rk_in)
            /\ Cardinality(Flagged(rk_out2)) \in 0..Len(rk_in)
            /\ Flagged(rk_out) \subseteq Flagged(rk_out2)

\* What holds of C11 in the code: the same, for the lists that have a row.
C11_MonotoneWhenNotEmpty == rk_in # <<>> => C11_MonotoneInColumns

\* A row is flagged over three columns and not over the four.
C11_Grows ==
    /\ rk_pc = "fewer"
    /\ Flagged(rk_out) # {}
    /\ Flagged(rk_out) # Flagged(rk_out2)

====
